---- MODULE Spec2Model ----
(***************************************************************************)
(* State-machine model of the quote calculator (HeyitsClay/quote-calc).    *)
(*                                                                         *)
(* Two builds of the App component live in the repository and both are     *)
(* modelled; `variant' says which one is running:                          *)
(*   "App"     src/src/App.tsx (src/unnamed/part_000 is the same logic     *)
(*             without the import/export handlers)                         *)
(*   "Ariakit" src/unnamed/part_001 with src/unnamed/part_002 (utils)      *)
(*                                                                         *)
(* Encoding of JavaScript values                                           *)
(*   object      a record holding exactly the fields that are present;     *)
(*               a missing field is `undefined'                            *)
(*   array       a sequence; a top-level JSON array is wrapped as          *)
(*               [jsonType |-> "array", elements |-> <<...>>]              *)
(*   null/number at the top level of a JSON text: [jsonType |-> ...]       *)
(*   QuoteItem   an object with identity: a reference (index) into `heap'; *)
(*               two arrays may hold the same reference                    *)
(*   text        [text |-> "null"] (no text), "empty", "unparsable", or    *)
(*               [text |-> "json", value |-> v]; JSON.stringify replaces   *)
(*               references by the records they point to, JSON.parse       *)
(*               allocates a fresh object for every record it reads        *)
(*   money       integers; prices are kept in hundredths so that           *)
(*               cost * (1 + markup/100) stays an integer                  *)
(***************************************************************************)
EXTENDS Integers, Sequences, FiniteSets, TLC

VARIABLES
  variant,     \* which build runs
  activeTab,   \* App.tsx:45
  settings,    \* App.tsx:47, part_001:10
  laborHours,  \* App.tsx:63, part_001:19
  quoteItems,  \* App.tsx:64, part_001:23 (sequence of references)
  quoteName,   \* App.tsx:65, part_001:27
  heap,        \* the QuoteItem objects of this session
  storage,     \* localStorage: one text per key
  crashed,     \* an exception escaped construction or rendering
  nextId,      \* the next id generateId / crypto.randomUUID hands out
  pendingReads \* clipboard reads part_001's import is waiting for

vars == <<variant, activeTab, settings, laborHours, quoteItems, quoteName,
          heap, storage, crashed, nextId, pendingReads>>

----
\* Bounds of the model

\* ids the id generator hands out in one run
MaxIds == 2
\* QuoteItem objects allocated in one session
MaxHeap == 2
\* length of settings.wages reached through addWage
MaxWages == 2
\* clipboard reads in flight at once
MaxPending == 1

Variants == {"App", "Ariakit"}
Tabs == {"quote", "settings", "history"}
HourInputs == {2}
QuantityInputs == {2}
NameInputs == {"", " ", "A"}
RateInputs == {100, 50}
MarkupInputs == {20, 0}
WageInputs == {0}
CostInputs == {20}
CustomMarkupInputs == {50}
Today == "today"

----
\* Values

DEFAULT_SETTINGS ==
  [targetHourly |-> 100, wages |-> <<25>>, globalMarkup |-> 20,
   persistentItems |-> <<>>, savedQuotes |-> <<>>]

SettingsFields ==
  {"targetHourly", "wages", "globalMarkup", "persistentItems", "savedQuotes"}

JsonNull == [jsonType |-> "null"]
JsonNumber(n) == [jsonType |-> "number", n |-> n]
JsonArray(s) == [jsonType |-> "array", elements |-> s]

NoText == [text |-> "null"]
EmptyText == [text |-> "empty"]
EmptyObject == <<>>
BadText == [text |-> "unparsable"]
\* a stored string that is not JSON; the empty string is EmptyText
RawText(str) == IF str = "" THEN EmptyText ELSE [text |-> "raw", str |-> str]
JsonText(v) == [text |-> "json", value |-> v]

\* obj.f is present (not undefined)
Has(obj, f) == f \in DOMAIN obj
\* Array.isArray(v) of a parsed top-level value
IsArray(v) == Has(v, "jsonType") /\ v.jsonType = "array"
IsNull(v) == Has(v, "jsonType") /\ v.jsonType = "null"
IsPrimitive(v) == Has(v, "jsonType") /\ v.jsonType = "number"
\* { ...obj, ...updates }
Spread(obj, updates) == updates @@ obj
\* a string is truthy unless empty; getItem/prompt give null for no text
Truthy(t) == t.text \notin {"null", "empty"}
\* JSON.parse(t) throws a SyntaxError
ParseThrows(t) == t.text /= "json"

\* array.filter((_, i) => i !== index)
RemoveAt(s, index) ==
  [i \in 1..(Len(s) - 1) |-> IF i < index THEN s[i] ELSE s[i + 1]]

----
\* JSON.stringify / JSON.parse of the persisted and exported structures

\* the records a QuoteItem[] refers to
ItemValues(refs, h) == [i \in 1..Len(refs) |-> h[refs[i]]]

QuoteValue(q, h) ==
  IF Has(q, "items") THEN [q EXCEPT !.items = ItemValues(q.items, h)] ELSE q

\* JSON.stringify(settings.savedQuotes)
QuoteValues(qs, h) == [i \in 1..Len(qs) |-> QuoteValue(qs[i], h)]

\* JSON.stringify(settings)
SettingsValue(s, h) ==
  IF Has(s, "savedQuotes")
  THEN [s EXCEPT !.savedQuotes = QuoteValues(s.savedQuotes, h)]
  ELSE s

\* JSON.parse of an array of quotes: every item record becomes a new object
RECURSIVE ParseQuotes(_, _)
ParseQuotes(vals, h) ==
  IF vals = <<>> THEN [quotes |-> <<>>, heap |-> h]
  ELSE LET q == Head(vals)
           its == IF Has(q, "items") THEN q.items ELSE <<>>
           refs == [i \in 1..Len(its) |-> Len(h) + i]
           obj == IF Has(q, "items") THEN [q EXCEPT !.items = refs] ELSE q
           rest == ParseQuotes(Tail(vals), h \o its)
       IN [quotes |-> <<obj>> \o rest.quotes, heap |-> rest.heap]

\* JSON.parse of a settings text
ParseSettings(v, h) ==
  IF Has(v, "savedQuotes")
  THEN LET p == ParseQuotes(v.savedQuotes, h)
       IN [settings |-> [v EXCEPT !.savedQuotes = p.quotes], heap |-> p.heap]
  ELSE [settings |-> v, heap |-> h]

----
\* Calculations

\* persistentItems.find(i => i.id === itemId): the index, 0 when not found
FindItem(persistentItems, itemId) ==
  LET hits == {i \in 1..Len(persistentItems) : persistentItems[i].id = itemId}
  IN IF hits = {} THEN 0 ELSE CHOOSE i \in hits : \A j \in hits : i <= j

\* C15 mutant: an item that is not in the catalog throws the totals away
RECURSIVE calculateMaterialsOrGiveUp(_, _, _)
calculateMaterialsOrGiveUp(items, persistentItems, globalMarkup) ==
  IF items = <<>> THEN [cost |-> 0, price |-> 0]
  ELSE LET n == Len(items)
           qItem == items[n]
           before == calculateMaterialsOrGiveUp(SubSeq(items, 1, n - 1),
                                                persistentItems, globalMarkup)
           k == FindItem(persistentItems, qItem.itemId)
       IN IF k = 0 THEN [cost |-> 0, price |-> 0]
          ELSE LET pItem == persistentItems[k]
                   itemCost == pItem.cost * qItem.quantity
                   markup == IF pItem.useCustomMarkup THEN pItem.customMarkup
                             ELSE globalMarkup
                   itemPrice == itemCost * (100 + markup)
               IN [cost |-> before.cost + itemCost,
                   price |-> before.price + itemPrice]

\* C21 mutant: a negative cost, quantity or markup is counted as zero
RECURSIVE calculateMaterialsClamped(_, _, _)
calculateMaterialsClamped(items, persistentItems, globalMarkup) ==
  IF items = <<>> THEN [cost |-> 0, price |-> 0]
  ELSE LET n == Len(items)
           qItem == items[n]
           before == calculateMaterialsClamped(SubSeq(items, 1, n - 1),
                                               persistentItems, globalMarkup)
           k == FindItem(persistentItems, qItem.itemId)
           AtLeastZero(x) == IF x < 0 THEN 0 ELSE x
       IN IF k = 0 THEN before
          ELSE LET pItem == persistentItems[k]
                   itemCost == AtLeastZero(pItem.cost)
                               * AtLeastZero(qItem.quantity)
                   markup == IF pItem.useCustomMarkup THEN pItem.customMarkup
                             ELSE globalMarkup
                   itemPrice == itemCost * (100 + AtLeastZero(markup))
               IN [cost |-> before.cost + itemCost,
                   price |-> before.price + itemPrice]

\* calculateMaterialTotals / calculateMaterials; price in hundredths
RECURSIVE calculateMaterials(_, _, _)
calculateMaterials(items, persistentItems, globalMarkup) ==
  IF items = <<>> THEN [cost |-> 0, price |-> 0]
  ELSE LET n == Len(items)
           qItem == items[n]
           before == calculateMaterials(SubSeq(items, 1, n - 1),
                                        persistentItems, globalMarkup)
           k == FindItem(persistentItems, qItem.itemId)
       IN IF k = 0 THEN before
          ELSE LET pItem == persistentItems[k]
                   itemCost == pItem.cost * qItem.quantity
                   markup == IF pItem.useCustomMarkup THEN pItem.customMarkup
                             ELSE globalMarkup
                   itemPrice == itemCost * (100 + markup)
               IN [cost |-> before.cost + itemCost,
                   price |-> before.price + itemPrice]

\* C19 mutant: every worker is paid for all the hours
calculateLaborCostUndivided(wages, hours) ==
  IF Len(wages) = 0 \/ hours = 0 THEN [num |-> 0, den |-> 1]
  ELSE LET RECURSIVE Go(_)
           Go(i) == IF i = 0 THEN 0 ELSE Go(i - 1) + wages[i] * hours
       IN [num |-> Go(Len(wages)), den |-> 1]

\* C20 mutant: the first wage is taken for every worker
calculateLaborCostOfFirst(wages, hours) ==
  IF Len(wages) = 0 \/ hours = 0 THEN [num |-> 0, den |-> 1]
  ELSE [num |-> Len(wages) * wages[1] * hours, den |-> Len(wages)]

\* calculateLaborCost: wages.reduce((total, wage) =>
\* total + wage * (laborHours / wages.length), 0), kept as the exact fraction
\* num / den
calculateLaborCost(wages, hours) ==
  IF Len(wages) = 0 \/ hours = 0 THEN [num |-> 0, den |-> 1]
  ELSE LET RECURSIVE Go(_)
           Go(i) == IF i = 0 THEN 0 ELSE Go(i - 1) + wages[i] * hours
       IN [num |-> Go(Len(wages)), den |-> Len(wages)]

\* the displayed laborCost of the working quote
laborCost == calculateLaborCost(settings.wages, laborHours)

\* laborHours * settings.targetHourly, in hundredths
calculateLaborPrice(hours, targetHourly) == hours * targetHourly * 100

\* the displayed totalPrice of the working quote, in hundredths
totalPrice ==
  calculateLaborPrice(laborHours, settings.targetHourly)
  + calculateMaterials(ItemValues(quoteItems, heap), settings.persistentItems,
                       settings.globalMarkup).price

\* calculateMaterialTotals() of the working quote
materials ==
  calculateMaterials(ItemValues(quoteItems, heap), settings.persistentItems,
                     settings.globalMarkup)

\* totalCost = laborCost + materials.cost, as the exact fraction num / den
totalCost ==
  [num |-> laborCost.num + materials.cost * laborCost.den,
   den |-> laborCost.den]

\* profit = totalPrice - totalCost, in hundredths, as the fraction num / den
profit ==
  [num |-> totalPrice * totalCost.den - 100 * totalCost.num,
   den |-> totalCost.den]

\* C22 mutant: the quotient is taken whatever totalPrice is
marginUnguarded ==
  [num |-> 100 * profit.num, den |-> profit.den * totalPrice]

\* margin = totalPrice > 0 ? (profit / totalPrice) * 100 : 0, as the fraction
\* num / den; den = 0 stands for the Infinity or NaN a division by 0 gives
margin ==
  IF totalPrice > 0
  THEN [num |-> 100 * profit.num, den |-> profit.den * totalPrice]
  ELSE [num |-> 0, den |-> 1]

----
\* Rendering: the property reads that throw a TypeError on undefined

QuoteRenders(q) == Has(q, "totalPrice")

\* App.tsx renders one tab; calculateLaborCost and calculateMaterialTotals run
\* on every render
RenderThrowsApp(tab, s, items) ==
  \/ ~Has(s, "wages")
  \/ items /= <<>> /\ ~Has(s, "persistentItems")
  \/ tab \in {"quote", "settings"} /\ ~Has(s, "persistentItems")
  \/ tab = "history"
     /\ \/ ~Has(s, "savedQuotes")
        \/ \E i \in 1..Len(s.savedQuotes) : ~QuoteRenders(s.savedQuotes[i])

\* part_001 evaluates the children of every tab panel on every render
RenderThrowsAriakit(s) ==
  \/ ~Has(s, "persistentItems")
  \/ ~Has(s, "wages")
  \/ ~Has(s, "savedQuotes")
  \/ \E i \in 1..Len(s.savedQuotes) :
       ~QuoteRenders(s.savedQuotes[i]) \/ ~Has(s.savedQuotes[i], "items")

RenderThrows(v, tab, s, items) ==
  IF v = "App" THEN RenderThrowsApp(tab, s, items) ELSE RenderThrowsAriakit(s)

----
\* Startup

\* the useState initializer of settings; thrown: the exception was caught
SettingsInitializerApp(saved, h) ==
  IF ~Truthy(saved) THEN [settings |-> DEFAULT_SETTINGS, heap |-> h]
  ELSE IF ParseThrows(saved) THEN [settings |-> DEFAULT_SETTINGS, heap |-> h]
  ELSE LET parsed == ParseSettings(saved.value, h)
       IN IF IsNull(saved.value) \/ IsPrimitive(saved.value)
          \* reading a property of null, or assigning one to a number in
          \* strict mode, throws a TypeError inside the try block
          THEN [settings |-> DEFAULT_SETTINGS, heap |-> h]
          ELSE IF ~Has(parsed.settings, "savedQuotes")
          THEN [settings |-> Spread(parsed.settings, [savedQuotes |-> <<>>]),
                heap |-> parsed.heap]
          ELSE parsed

SettingsInitializerAriakit(saved, h) ==
  IF ~Truthy(saved) THEN [settings |-> DEFAULT_SETTINGS, heap |-> h]
  ELSE IF ParseThrows(saved) THEN [settings |-> DEFAULT_SETTINGS, heap |-> h]
  ELSE ParseSettings(saved.value, h)

SettingsInitializer(v, saved, h) ==
  IF v = "App" THEN SettingsInitializerApp(saved, h)
  ELSE SettingsInitializerAriakit(saved, h)

\* the useState initializer of quoteItems in part_001: no try block
ItemsInitializerAriakit(saved, h) ==
  IF ~Truthy(saved) THEN [items |-> <<>>, heap |-> h, thrown |-> FALSE]
  ELSE IF ParseThrows(saved) \/ ~IsArray(saved.value)
  \* JSON.parse throws, or calculateMaterials calls forEach on a non-array
  THEN [items |-> <<>>, heap |-> h, thrown |-> TRUE]
  ELSE LET its == saved.value.elements
       IN [items |-> [i \in 1..Len(its) |-> Len(h) + i], heap |-> h \o its,
           thrown |-> FALSE]

\* saved ? Number(saved) : 0
HoursInitializerAriakit(saved) ==
  IF Truthy(saved) /\ ~ParseThrows(saved) /\ IsPrimitive(saved.value)
  THEN saved.value.n ELSE 0

\* localStorage.getItem('quote_builder_name') || ''
NameInitializerAriakit(saved) ==
  IF saved.text = "raw" THEN saved.str ELSE ""

\* the effect of App.tsx:67-69 / part_001:47-49
PersistSettings(st, s, h) ==
  [st EXCEPT !.settings = JsonText(SettingsValue(s, h))]

\* the effect of part_001:51-55
PersistQuote(st, hours, items, name, h) ==
  [st EXCEPT !.hours = JsonText(JsonNumber(hours)),
             !.items = JsonText(JsonArray(ItemValues(items, h))),
             !.name = RawText(name)]

\* what earlier sessions and earlier versions left in localStorage
OldItem ==
  [id |-> 0, name |-> "Wood", cost |-> 10, useCustomMarkup |-> FALSE,
   customMarkup |-> 0]
OldSchemaSettings ==
  [targetHourly |-> 100, wages |-> <<25>>, globalMarkup |-> 20,
   persistentItems |-> <<OldItem>>]
\* the same catalog, written by the current version
CatalogSettings == Spread(OldSchemaSettings, [savedQuotes |-> <<>>])
\* a text of the current version that lost its wages
NoWagesSettings ==
  [targetHourly |-> 100, globalMarkup |-> 20, persistentItems |-> <<>>,
   savedQuotes |-> <<>>]
SettingsTexts ==
  {NoText, BadText, JsonText(JsonNull), JsonText(JsonNumber(5)),
   JsonText(EmptyObject), JsonText(OldSchemaSettings),
   JsonText(CatalogSettings), JsonText(NoWagesSettings)}

EmptyStorage ==
  [settings |-> NoText, hours |-> NoText, items |-> NoText, name |-> NoText]

\* the state after construction and the first render, from localStorage st
Startup(st) ==
  /\ activeTab = "quote"
  /\ nextId = 1
  /\ pendingReads = 0
  /\ LET si == SettingsInitializer(variant, st.settings, <<>>)
         qi == IF variant = "App"
               THEN [items |-> <<>>, heap |-> si.heap, thrown |-> FALSE]
               ELSE ItemsInitializerAriakit(st.items, si.heap)
     IN /\ settings = si.settings
        /\ heap = qi.heap
        /\ quoteItems = qi.items
        /\ laborHours = IF variant = "App" THEN 0
                        ELSE HoursInitializerAriakit(st.hours)
        /\ quoteName = IF variant = "App" THEN ""
                       ELSE NameInitializerAriakit(st.name)
        /\ crashed = (qi.thrown
                      \/ RenderThrows(variant, "quote", si.settings, qi.items))
        /\ storage =
             IF crashed THEN st
             ELSE IF variant = "App"
             THEN PersistSettings(st, settings, heap)
             ELSE PersistQuote(PersistSettings(st, settings, heap),
                               laborHours, quoteItems, quoteName, heap)

\* any of the settings texts is in localStorage
Init ==
  /\ variant \in Variants
  /\ \E t \in SettingsTexts : Startup([EmptyStorage EXCEPT !.settings = t])

----
\* What follows every handler

\* React renders the new state; the effects run only when the render did not
\* throw.  settingsSet: setSettings was called; quoteSet: a setter of the
\* working quote was called.
Rendered(settingsSet, quoteSet) ==
  /\ crashed' = RenderThrows(variant, activeTab', settings', quoteItems')
  /\ storage' =
       IF crashed' THEN storage
       ELSE LET st == IF settingsSet
                      THEN PersistSettings(storage, settings', heap')
                      ELSE storage
            IN IF quoteSet /\ variant = "Ariakit"
               THEN PersistQuote(st, laborHours', quoteItems', quoteName', heap')
               ELSE st

\* the control is on screen: App.tsx shows one tab at a time
OnTab(tab) == ~crashed /\ (variant = "Ariakit" \/ activeTab = tab)

\* the rows on screen for a list of the settings: none when it is missing
Rows(field) == IF Has(settings, field) THEN settings[field] ELSE <<>>

\* C17 mutant: the updates are merged into the defaults
updateSettingsOverDefaults(updates) == Spread(DEFAULT_SETTINGS, updates)

\* setSettings(prev => ({ ...prev, ...updates }))
updateSettings(updates) == Spread(settings, updates)

----
\* Navigation

setActiveTab(tab) ==
  /\ ~crashed /\ variant = "App"
  /\ activeTab' = tab
  /\ UNCHANGED <<variant, pendingReads, settings, laborHours, quoteItems,
                 quoteName, heap, nextId>>
  /\ Rendered(FALSE, FALSE)

----
\* Settings actions

\* C4 mutant: a new rate re-prices the saved quotes
setTargetHourlyRepricing(val) ==
  /\ OnTab("settings")
  /\ LET Repriced(q) ==
           [q EXCEPT !.totalPrice =
              calculateLaborPrice(q.laborHours, val)
              + calculateMaterials(ItemValues(q.items, heap),
                                   settings.persistentItems,
                                   settings.globalMarkup).price]
     IN settings' = updateSettings(
            [targetHourly |-> val,
             savedQuotes |-> [i \in 1..Len(settings.savedQuotes) |->
                                Repriced(settings.savedQuotes[i])]])
  /\ UNCHANGED <<variant, pendingReads, activeTab, laborHours, quoteItems,
                 quoteName, heap, nextId>>
  /\ Rendered(TRUE, FALSE)

setTargetHourly(val) ==
  /\ OnTab("settings")
  /\ settings' = updateSettings([targetHourly |-> val])
  /\ UNCHANGED <<variant, pendingReads, activeTab, laborHours, quoteItems,
                 quoteName, heap, nextId>>
  /\ Rendered(TRUE, FALSE)

setGlobalMarkup(val) ==
  /\ OnTab("settings")
  /\ settings' = updateSettings([globalMarkup |-> val])
  /\ UNCHANGED <<variant, pendingReads, activeTab, laborHours, quoteItems,
                 quoteName, heap, nextId>>
  /\ Rendered(TRUE, FALSE)

addPersistentItem ==
  /\ OnTab("settings")
  /\ nextId <= MaxIds
  /\ LET newItem == [id |-> nextId,
                     name |-> IF variant = "App" THEN "" ELSE "New Item",
                     cost |-> 0, useCustomMarkup |-> FALSE, customMarkup |-> 0]
     IN settings' = updateSettings(
            [persistentItems |-> Append(settings.persistentItems, newItem)])
  /\ nextId' = nextId + 1
  /\ UNCHANGED <<variant, pendingReads, activeTab, laborHours, quoteItems,
                 quoteName, heap>>
  /\ Rendered(TRUE, FALSE)

\* the edits the item editor offers, one field at a time
ItemUpdates ==
  {[cost |-> c] : c \in CostInputs} \cup {[useCustomMarkup |-> b] : b \in BOOLEAN}
  \cup {[customMarkup |-> m] : m \in CustomMarkupInputs}

\* persistentItems.map(item => item.id === id ? { ...item, ...updates } : item)
MapUpdate(persistentItems, id, updates) ==
  [i \in 1..Len(persistentItems) |->
     IF persistentItems[i].id = id THEN Spread(persistentItems[i], updates)
     ELSE persistentItems[i]]

updatePersistentItem(id, updates) ==
  /\ OnTab("settings")
  /\ settings' = updateSettings(
         [persistentItems |-> MapUpdate(settings.persistentItems, id, updates)])
  /\ UNCHANGED <<variant, pendingReads, activeTab, laborHours, quoteItems,
                 quoteName, heap, nextId>>
  /\ Rendered(TRUE, FALSE)

\* persistentItems.filter(item => item.id !== id)
WithoutId(s, id) ==
  LET RECURSIVE Go(_)
      Go(i) == IF i = 0 THEN <<>>
               ELSE IF s[i].id /= id THEN Append(Go(i - 1), s[i]) ELSE Go(i - 1)
  IN Go(Len(s))

\* C14 mutant: the working quote loses the items of the deleted entry
removeAndCascade(id, confirmed) ==
  /\ OnTab("settings")
  /\ IF variant = "App" /\ ~confirmed
     THEN UNCHANGED vars
     ELSE /\ settings' = updateSettings(
                 [persistentItems |-> WithoutId(settings.persistentItems, id)])
          /\ quoteItems' = SelectSeq(quoteItems,
                                     LAMBDA r : heap[r].itemId /= id)
          /\ UNCHANGED <<variant, pendingReads, activeTab, laborHours,
                         quoteName, heap, nextId>>
          /\ Rendered(TRUE, TRUE)

\* App.tsx asks for confirmation, part_001 does not
removePersistentItem(id, confirmed) ==
  /\ OnTab("settings")
  /\ IF variant = "App" /\ ~confirmed
     THEN UNCHANGED vars
     ELSE /\ settings' = updateSettings(
                 [persistentItems |-> WithoutId(settings.persistentItems, id)])
          /\ UNCHANGED <<variant, pendingReads, activeTab, laborHours,
                         quoteItems, quoteName, heap, nextId>>
          /\ Rendered(TRUE, FALSE)

addWage ==
  /\ OnTab("settings")
  /\ Len(settings.wages) < MaxWages
  /\ settings' = updateSettings([wages |-> Append(settings.wages, 0)])
  /\ UNCHANGED <<variant, pendingReads, activeTab, laborHours, quoteItems,
                 quoteName, heap, nextId>>
  /\ Rendered(TRUE, FALSE)

\* C18 mutant: the wage is written into the list the settings hold and the
\* same settings object is set again: React sees no change, does not render
\* and runs no effect
updateWageInPlace(index, val) ==
  /\ OnTab("settings")
  /\ LET newWages == [settings.wages EXCEPT ![index] = val]
     IN settings' = updateSettings([wages |-> newWages])
  /\ UNCHANGED <<variant, pendingReads, activeTab, laborHours, quoteItems,
                 quoteName, heap, nextId, storage, crashed>>

updateWage(index, val) ==
  /\ OnTab("settings")
  /\ LET newWages == [settings.wages EXCEPT ![index] = val]
     IN settings' = updateSettings([wages |-> newWages])
  /\ UNCHANGED <<variant, pendingReads, activeTab, laborHours, quoteItems,
                 quoteName, heap, nextId>>
  /\ Rendered(TRUE, FALSE)

removeWage(index) ==
  /\ OnTab("settings")
  /\ settings' = updateSettings([wages |-> RemoveAt(settings.wages, index)])
  /\ UNCHANGED <<variant, pendingReads, activeTab, laborHours, quoteItems,
                 quoteName, heap, nextId>>
  /\ Rendered(TRUE, FALSE)

----
\* Quote actions

setLaborHours(val) ==
  /\ OnTab("quote")
  /\ laborHours' = val
  /\ UNCHANGED <<variant, pendingReads, activeTab, settings, quoteItems,
                 quoteName, heap, nextId>>
  /\ Rendered(FALSE, TRUE)

setQuoteName(val) ==
  /\ OnTab("quote")
  /\ quoteName' = val
  /\ UNCHANGED <<variant, pendingReads, activeTab, settings, laborHours,
                 quoteItems, heap, nextId>>
  /\ Rendered(FALSE, TRUE)

\* the id the picker passes on: App.tsx offers every catalog entry by id,
\* part_001 looks the chosen name up and takes the first entry that has it
PickedId(k) ==
  IF variant = "App" THEN settings.persistentItems[k].id
  ELSE LET name == settings.persistentItems[k].name
           first == CHOOSE i \in 1..k :
                      /\ settings.persistentItems[i].name = name
                      /\ \A j \in 1..(i - 1) :
                           settings.persistentItems[j].name /= name
       IN settings.persistentItems[first].id

\* setQuoteItems([...quoteItems, { itemId, quantity: 1 }])
addToQuote(itemId) ==
  /\ OnTab("quote")
  /\ Len(heap) < MaxHeap
  /\ heap' = Append(heap, [itemId |-> itemId, quantity |-> 1])
  /\ quoteItems' = Append(quoteItems, Len(heap) + 1)
  /\ UNCHANGED <<variant, pendingReads, activeTab, settings, laborHours,
                 quoteName, nextId>>
  /\ Rendered(FALSE, TRUE)

\* the row of quoteItems[index] is drawn only when its itemId resolves
RowShown(index) ==
  FindItem(settings.persistentItems, heap[quoteItems[index]].itemId) /= 0

\* newItems = [...quoteItems]; newItems[index].quantity = quantity:
\* the array is new, the object written to is the one quoteItems[index] holds
updateQuoteItemQuantity(index, quantity) ==
  /\ OnTab("quote")
  /\ RowShown(index)
  /\ heap' = [heap EXCEPT ![quoteItems[index]].quantity = quantity]
  /\ quoteItems' = quoteItems
  /\ UNCHANGED <<variant, pendingReads, activeTab, settings, laborHours,
                 quoteName, nextId>>
  /\ Rendered(FALSE, TRUE)

removeFromQuote(index) ==
  /\ OnTab("quote")
  /\ RowShown(index)
  /\ quoteItems' = RemoveAt(quoteItems, index)
  /\ UNCHANGED <<variant, pendingReads, activeTab, settings, laborHours,
                 quoteName, heap, nextId>>
  /\ Rendered(FALSE, TRUE)

\* C9 mutant: the save goes ahead whatever the name is
NameNeverMissing == FALSE

\* !quoteName.trim() in App.tsx, !quoteName in part_001
NameMissing ==
  IF variant = "App" THEN quoteName \in {"", " "} ELSE quoteName = ""

\* C10 mutant: the new quote is put after the saved ones
saveAtEnd ==
  /\ OnTab("quote")
  /\ IF NameMissing \/ ~Has(settings, "savedQuotes")
     THEN UNCHANGED vars
     ELSE /\ nextId <= MaxIds
          /\ LET newSavedQuote ==
                   [id |-> nextId, name |-> quoteName, date |-> Today,
                    items |-> quoteItems, laborHours |-> laborHours,
                    totalPrice |-> totalPrice]
             IN settings' = updateSettings(
                    [savedQuotes |-> Append(settings.savedQuotes, newSavedQuote)])
          /\ quoteName' = ""
          /\ nextId' = nextId + 1
          /\ UNCHANGED <<variant, pendingReads, activeTab, laborHours,
                         quoteItems, heap>>
          /\ Rendered(TRUE, TRUE)

\* C11 mutant: the stored total leaves the markup out
saveAtCost ==
  /\ OnTab("quote")
  /\ IF NameMissing \/ ~Has(settings, "savedQuotes")
     THEN UNCHANGED vars
     ELSE /\ nextId <= MaxIds
          /\ LET newSavedQuote ==
                   [id |-> nextId, name |-> quoteName, date |-> Today,
                    items |-> quoteItems, laborHours |-> laborHours,
                    totalPrice |-> calculateLaborPrice(laborHours, settings.targetHourly)
                      + 100 * calculateMaterials(
                                ItemValues(quoteItems, heap),
                                settings.persistentItems,
                                settings.globalMarkup).cost]
             IN settings' = updateSettings(
                    [savedQuotes |-> <<newSavedQuote>> \o settings.savedQuotes])
          /\ quoteName' = ""
          /\ nextId' = nextId + 1
          /\ UNCHANGED <<variant, pendingReads, activeTab, laborHours,
                         quoteItems, heap>>
          /\ Rendered(TRUE, TRUE)

\* C12 mutant: a save empties the working quote, as Clear does
saveAndClear ==
  /\ OnTab("quote")
  /\ IF NameMissing \/ ~Has(settings, "savedQuotes")
     THEN UNCHANGED vars
     ELSE /\ nextId <= MaxIds
          /\ LET newSavedQuote ==
                   [id |-> nextId, name |-> quoteName, date |-> Today,
                    items |-> quoteItems, laborHours |-> laborHours,
                    totalPrice |-> totalPrice]
             IN settings' = updateSettings(
                    [savedQuotes |-> <<newSavedQuote>> \o settings.savedQuotes])
          /\ quoteName' = ""
          /\ nextId' = nextId + 1
          /\ quoteItems' = <<>>
          /\ laborHours' = 0
          /\ UNCHANGED <<variant, pendingReads, activeTab, heap>>
          /\ Rendered(TRUE, TRUE)

saveCurrentQuote ==
  /\ OnTab("quote")
  /\ IF NameMissing \/ ~Has(settings, "savedQuotes")
     \* the early return, or the TypeError of spreading undefined
     THEN UNCHANGED vars
     ELSE /\ nextId <= MaxIds
          /\ LET newSavedQuote ==
                   [id |-> nextId, name |-> quoteName, date |-> Today,
                    items |-> quoteItems, laborHours |-> laborHours,
                    totalPrice |-> totalPrice]
             IN settings' = updateSettings(
                    [savedQuotes |-> <<newSavedQuote>> \o settings.savedQuotes])
          /\ quoteName' = ""
          /\ nextId' = nextId + 1
          /\ UNCHANGED <<variant, pendingReads, activeTab, laborHours,
                         quoteItems, heap>>
          /\ Rendered(TRUE, TRUE)

\* part_001:112-119
handleClearQuote(confirmed) ==
  /\ ~crashed /\ variant = "Ariakit"
  /\ IF ~confirmed THEN UNCHANGED vars
     ELSE /\ quoteName' = ""
          /\ quoteItems' = <<>>
          /\ laborHours' = 0
          /\ UNCHANGED <<variant, pendingReads, activeTab, settings, heap,
                         nextId>>
          /\ Rendered(FALSE, TRUE)

----
\* History actions

\* C13 mutant: the loaded items are added to the working quote
loadAndKeep(i) ==
  /\ OnTab("history")
  /\ LET quote == settings.savedQuotes[i]
     IN /\ Has(quote, "items")
        /\ quoteItems' = quoteItems \o quote.items
        /\ laborHours' = quote.laborHours
        /\ quoteName' = quote.name
  /\ activeTab' = IF variant = "App" THEN "quote" ELSE activeTab
  /\ UNCHANGED <<variant, pendingReads, settings, heap, nextId>>
  /\ Rendered(FALSE, TRUE)

\* setQuoteItems(quote.items): the working quote now holds the very objects
\* the saved quote holds
loadSavedQuote(i) ==
  /\ OnTab("history")
  /\ LET quote == settings.savedQuotes[i]
     IN /\ Has(quote, "items")
        /\ quoteItems' = quote.items
        /\ laborHours' = quote.laborHours
        /\ quoteName' = quote.name
  /\ activeTab' = IF variant = "App" THEN "quote" ELSE activeTab
  /\ UNCHANGED <<variant, pendingReads, settings, heap, nextId>>
  /\ Rendered(FALSE, TRUE)

\* C30 mutant: the delete also empties the working quote
deleteAndClear(id, confirmed) ==
  /\ OnTab("history")
  /\ IF variant = "App" /\ ~confirmed
     THEN UNCHANGED vars
     ELSE /\ settings' = updateSettings(
                 [savedQuotes |-> WithoutId(settings.savedQuotes, id)])
          /\ quoteItems' = <<>>
          /\ laborHours' = 0
          /\ quoteName' = ""
          /\ UNCHANGED <<variant, pendingReads, activeTab, heap, nextId>>
          /\ Rendered(TRUE, TRUE)

deleteSavedQuote(id, confirmed) ==
  /\ OnTab("history")
  /\ IF variant = "App" /\ ~confirmed
     THEN UNCHANGED vars
     ELSE /\ settings' = updateSettings(
                 [savedQuotes |-> WithoutId(settings.savedQuotes, id)])
          /\ UNCHANGED <<variant, pendingReads, activeTab, laborHours,
                         quoteItems, quoteName, heap, nextId>>
          /\ Rendered(TRUE, FALSE)

----
\* Export and import

\* the text exportSettings copies to the clipboard
exportSettings == JsonText(SettingsValue(settings, heap))

\* the text exportSavedQuotes copies to the clipboard
exportSavedQuotes ==
  IF Has(settings, "savedQuotes")
  THEN JsonText(JsonArray(QuoteValues(settings.savedQuotes, heap)))
  \* JSON.stringify(undefined) is undefined: the clipboard gets no JSON
  ELSE BadText

\* setSettings(parsed)
SetParsedSettings(value) ==
  LET parsed == ParseSettings(value, heap)
  IN /\ Len(parsed.heap) <= MaxHeap
     /\ settings' = parsed.settings
     /\ heap' = parsed.heap
     /\ UNCHANGED <<variant, activeTab, laborHours, quoteItems, quoteName,
                    nextId>>
     /\ Rendered(TRUE, FALSE)

\* C8 mutant: a text that does not parse resets the settings, as it does at
\* startup
importSettingsOrReset(data) ==
  /\ OnTab("settings") /\ variant = "App"
  /\ IF ~Truthy(data) THEN UNCHANGED vars
     ELSE IF ParseThrows(data)
     THEN SetParsedSettings(DEFAULT_SETTINGS) /\ UNCHANGED pendingReads
     ELSE IF IsNull(data.value) THEN UNCHANGED vars
     ELSE IF Has(data.value, "persistentItems")
     THEN SetParsedSettings(data.value) /\ UNCHANGED pendingReads
     ELSE UNCHANGED vars

\* C23 mutant: the import takes the rates and the catalog and keeps the saved
\* quotes of the device
importSettingsKeepingQuotes(data) ==
  /\ OnTab("settings") /\ variant = "App"
  /\ IF ~Truthy(data) THEN UNCHANGED vars
     ELSE IF ParseThrows(data) \/ IsNull(data.value)
     THEN UNCHANGED vars
     ELSE IF Has(data.value, "persistentItems")
     THEN /\ settings' = Spread(data.value,
                                [savedQuotes |-> settings.savedQuotes])
          /\ UNCHANGED <<variant, pendingReads, activeTab, laborHours,
                         quoteItems, quoteName, heap, nextId>>
          /\ Rendered(TRUE, FALSE)
     ELSE UNCHANGED vars

\* App.tsx:223-237; data is what the user gave to the prompt
importSettings(data) ==
  /\ OnTab("settings") /\ variant = "App"
  /\ IF ~Truthy(data) THEN UNCHANGED vars
     ELSE IF ParseThrows(data) \/ IsNull(data.value)
     \* SyntaxError, or the TypeError of null.persistentItems: caught
     THEN UNCHANGED vars
     ELSE IF Has(data.value, "persistentItems")
     THEN SetParsedSettings(data.value) /\ UNCHANGED pendingReads
     ELSE UNCHANGED vars

\* part_001:547-549: the handler runs up to its await
importSettingsClick ==
  /\ ~crashed /\ variant = "Ariakit"
  /\ pendingReads < MaxPending
  /\ pendingReads' = pendingReads + 1
  /\ UNCHANGED <<variant, activeTab, settings, laborHours, quoteItems,
                 quoteName, heap, storage, crashed, nextId>>

\* part_001:549-561: the clipboard read settles and the handler goes on;
\* text is what the clipboard holds then (no text: the read was rejected)
importSettingsResume(text, confirmed) ==
  /\ variant = "Ariakit"
  /\ pendingReads > 0
  /\ pendingReads' = pendingReads - 1
  /\ IF crashed \/ ParseThrows(text)
     THEN UNCHANGED <<variant, activeTab, settings, laborHours, quoteItems,
                      quoteName, heap, storage, crashed, nextId>>
     ELSE IF ~IsNull(text.value) /\ ~IsPrimitive(text.value)
             /\ Has(text.value, "targetHourly") /\ confirmed
     THEN SetParsedSettings(text.value)
     ELSE UNCHANGED <<variant, activeTab, settings, laborHours, quoteItems,
                      quoteName, heap, storage, crashed, nextId>>

\* the key new Map(...) files a quote under: q.id, or undefined
QuoteKey(q) == IF Has(q, "id") THEN <<q.id>> ELSE <<>>

\* C29 mutant: the lists are joined and nothing is removed
UniqueByIdKeepingAll(newQuotes) == newQuotes

\* C28 mutant: a key keeps the place of its last entry
UniqueByIdAtLastPlace(newQuotes) ==
  LET n == Len(newQuotes)
      IsLast(i) == \A j \in (i + 1)..n :
                     QuoteKey(newQuotes[j]) /= QuoteKey(newQuotes[i])
      RECURSIVE Go(_)
      Go(i) == IF i = 0 THEN <<>>
               ELSE IF IsLast(i) THEN Append(Go(i - 1), newQuotes[i])
               ELSE Go(i - 1)
  IN Go(n)

\* Array.from(new Map(newQuotes.map(q => [q.id, q])).values()): a key keeps
\* the place of its first entry and the value of its last
UniqueById(newQuotes) ==
  LET n == Len(newQuotes)
      Last(i) == CHOOSE j \in i..n :
                   /\ QuoteKey(newQuotes[j]) = QuoteKey(newQuotes[i])
                   /\ \A k \in (j + 1)..n :
                        QuoteKey(newQuotes[k]) /= QuoteKey(newQuotes[i])
      IsFirst(i) == \A j \in 1..(i - 1) :
                      QuoteKey(newQuotes[j]) /= QuoteKey(newQuotes[i])
      RECURSIVE Go(_)
      Go(i) == IF i = 0 THEN <<>>
               ELSE IF IsFirst(i) THEN Append(Go(i - 1), newQuotes[Last(i)])
               ELSE Go(i - 1)
  IN Go(n)

\* App.tsx:245-262
importSavedQuotes(data) ==
  /\ OnTab("history") /\ variant = "App"
  /\ IF ~Truthy(data) THEN UNCHANGED vars
     ELSE IF ParseThrows(data) THEN UNCHANGED vars
     ELSE IF ~IsArray(data.value) THEN UNCHANGED vars
     ELSE IF \E i \in 1..Len(data.value.elements) :
               IsNull(data.value.elements[i])
     \* the TypeError of reading id of null: caught
     THEN UNCHANGED vars
     ELSE LET parsed == ParseQuotes(data.value.elements, heap)
              newQuotes == parsed.quotes \o settings.savedQuotes
          IN /\ Len(parsed.heap) <= MaxHeap
             /\ heap' = parsed.heap
             /\ settings' = updateSettings([savedQuotes |-> UniqueById(newQuotes)])
             /\ UNCHANGED <<variant, pendingReads, activeTab, laborHours,
                            quoteItems, quoteName, nextId>>
             /\ Rendered(TRUE, FALSE)

----
\* Inputs of the import handlers

\* a quote saved on another device
ForeignQuote ==
  [id |-> 0, name |-> "Porch", date |-> "earlier",
   items |-> <<[itemId |-> 0, quantity |-> 3]>>, laborHours |-> 1,
   totalPrice |-> 13600]
\* an object that is not a SavedQuote
NotAQuote == [note |-> "hello"]
\* the same quote as exported earlier and renamed on the other device
Renamed(q) == [q EXCEPT !.name = "Renamed"]

SettingsPayloads ==
  {NoText, EmptyText, BadText, JsonText(JsonNull), JsonText(JsonArray(<<>>)),
   JsonText(EmptyObject), JsonText([persistentItems |-> <<>>]),
   JsonText([targetHourly |-> 50]), JsonText(OldSchemaSettings),
   JsonText([DEFAULT_SETTINGS EXCEPT !.targetHourly = 50]),
   exportSettings}

QuotesPayloads ==
  {NoText, EmptyText, BadText, JsonText(JsonNull), JsonText(EmptyObject),
   JsonText(JsonArray(<<>>)), JsonText(JsonArray(<<JsonNull>>)),
   JsonText(JsonArray(<<NotAQuote>>)), JsonText(JsonArray(<<ForeignQuote>>)),
   JsonText(JsonArray(<<ForeignQuote, Renamed(ForeignQuote)>>)),
   exportSavedQuotes}
  \cup {JsonText(JsonArray(<<Renamed(QuoteValue(Rows("savedQuotes")[i], heap))>>)) :
          i \in 1..Len(Rows("savedQuotes"))}

----
\* The next-state relations

\* the Quote tab
QuoteTab ==
  \/ \E val \in HourInputs : setLaborHours(val)
  \/ \E val \in NameInputs : setQuoteName(val)
  \/ \E k \in 1..Len(Rows("persistentItems")) : addToQuote(PickedId(k))
  \/ \E index \in 1..Len(quoteItems), quantity \in QuantityInputs :
       updateQuoteItemQuantity(index, quantity)
  \/ \E index \in 1..Len(quoteItems) : removeFromQuote(index)
  \/ saveCurrentQuote
  \/ \E confirmed \in BOOLEAN : handleClearQuote(confirmed)

\* the History tab
HistoryTab ==
  \/ \E i \in 1..Len(Rows("savedQuotes")) : loadSavedQuote(i)
  \/ \E i \in 1..Len(Rows("savedQuotes")), confirmed \in BOOLEAN :
       deleteSavedQuote(settings.savedQuotes[i].id, confirmed)
  \/ \E data \in QuotesPayloads : importSavedQuotes(data)

\* the Settings tab
SettingsTab ==
  \/ \E val \in RateInputs : setTargetHourly(val)
  \/ \E val \in MarkupInputs : setGlobalMarkup(val)
  \/ addPersistentItem
  \/ \E k \in 1..Len(Rows("persistentItems")), updates \in ItemUpdates :
       updatePersistentItem(settings.persistentItems[k].id, updates)
  \/ \E k \in 1..Len(Rows("persistentItems")), confirmed \in BOOLEAN :
       removePersistentItem(settings.persistentItems[k].id, confirmed)
  \/ addWage
  \/ \E index \in 1..Len(Rows("wages")), val \in WageInputs :
       updateWage(index, val)
  \/ \E index \in 1..Len(Rows("wages")) : removeWage(index)
  \/ \E data \in SettingsPayloads : importSettings(data)
  \/ importSettingsClick
  \/ \E text \in SettingsPayloads, confirmed \in BOOLEAN :
       importSettingsResume(text, confirmed)

Navigation == \E tab \in Tabs : setActiveTab(tab)

Next == Navigation \/ QuoteTab \/ HistoryTab \/ SettingsTab

\* every operation
Spec == Init /\ [][Next]_vars

\* the user builds, saves, loads and deletes quotes over the catalog an
\* earlier session left
QuoteNext ==
  \/ Navigation
  \/ QuoteTab
  \/ \E i \in 1..Len(Rows("savedQuotes")) : loadSavedQuote(i)
  \/ \E i \in 1..Len(Rows("savedQuotes")), confirmed \in BOOLEAN :
       deleteSavedQuote(settings.savedQuotes[i].id, confirmed)

QuoteSpec == Init /\ [][QuoteNext]_vars

\* an earlier session left the catalog and one saved quote
HistorySettings == Spread(CatalogSettings, [savedQuotes |-> <<ForeignQuote>>])

InitHistory ==
  /\ variant \in Variants
  /\ Startup([EmptyStorage EXCEPT !.settings = JsonText(HistorySettings)])

\* the user edits the catalog, the rates and the wages, loads the saved quote
\* and saves it again
RateEdit ==
  \/ \E val \in RateInputs : setTargetHourly(val)
  \/ \E val \in MarkupInputs : setGlobalMarkup(val)
  \/ \E k \in 1..Len(Rows("persistentItems")), updates \in ItemUpdates :
       updatePersistentItem(settings.persistentItems[k].id, updates)
  \/ addWage
  \/ \E index \in 1..Len(Rows("wages")), val \in WageInputs :
       updateWage(index, val)
  \/ \E index \in 1..Len(Rows("wages")) : removeWage(index)

CatalogNext ==
  \/ Navigation
  \/ RateEdit
  \/ saveCurrentQuote
  \/ \E i \in 1..Len(Rows("savedQuotes")) : loadSavedQuote(i)

CatalogSpec == InitHistory /\ [][CatalogNext]_vars

\* the user pastes texts into the two import prompts
ImportNext ==
  \/ Navigation
  \/ \E data \in SettingsPayloads : importSettings(data)
  \/ importSettingsClick
  \/ \E text \in SettingsPayloads, confirmed \in BOOLEAN :
       importSettingsResume(text, confirmed)
  \/ \E data \in QuotesPayloads : importSavedQuotes(data)
  \/ \E i \in 1..Len(Rows("savedQuotes")) : loadSavedQuote(i)

ImportSpec == InitHistory /\ [][ImportNext]_vars

\* the user adds and deletes catalog entries while quotes refer to them
RemovalNext ==
  \/ Navigation
  \/ addPersistentItem
  \/ \E k \in 1..Len(Rows("persistentItems")), c \in CostInputs :
       updatePersistentItem(settings.persistentItems[k].id, [cost |-> c])
  \/ \E k \in 1..Len(Rows("persistentItems")), confirmed \in BOOLEAN :
       removePersistentItem(settings.persistentItems[k].id, confirmed)
  \/ \E k \in 1..Len(Rows("persistentItems")) : addToQuote(PickedId(k))
  \/ \E i \in 1..Len(Rows("savedQuotes")) : loadSavedQuote(i)

RemovalSpec == InitHistory /\ [][RemovalNext]_vars

\* the user edits the wages and the catalog of the library, and sets hours
WageEdits == WageInputs \cup {25, 40}

WageEdit ==
  \/ addWage
  \/ \E index \in 1..Len(Rows("wages")), val \in WageEdits :
       updateWage(index, val)
  \/ \E index \in 1..Len(Rows("wages")) : removeWage(index)

CatalogEdit ==
  \/ addPersistentItem
  \/ \E k \in 1..Len(Rows("persistentItems")), c \in CostInputs :
       updatePersistentItem(settings.persistentItems[k].id, [cost |-> c])
  \/ \E k \in 1..Len(Rows("persistentItems")), confirmed \in BOOLEAN :
       removePersistentItem(settings.persistentItems[k].id, confirmed)

LibraryNext ==
  \/ Navigation
  \/ WageEdit
  \/ CatalogEdit
  \/ \E val \in HourInputs : setLaborHours(val)
  \/ \E i \in 1..Len(Rows("savedQuotes")) : loadSavedQuote(i)

LibrarySpec == InitHistory /\ [][LibraryNext]_vars

\* the user types signed numbers into the cost, markup and quantity fields:
\* every handler passes Number(e.target.value) on as it is
SignedCosts == {-5, 20}
SignedMarkups == {-10, 50}
SignedQuantities == {-1, 0, 2}

EntryNext ==
  \/ Navigation
  \/ \E val \in SignedMarkups : setGlobalMarkup(val)
  \/ \E k \in 1..Len(Rows("persistentItems")), c \in SignedCosts :
       updatePersistentItem(settings.persistentItems[k].id, [cost |-> c])
  \/ \E k \in 1..Len(Rows("persistentItems")), b \in BOOLEAN :
       updatePersistentItem(settings.persistentItems[k].id,
                            [useCustomMarkup |-> b])
  \/ \E k \in 1..Len(Rows("persistentItems")), m \in SignedMarkups :
       updatePersistentItem(settings.persistentItems[k].id,
                            [customMarkup |-> m])
  \/ \E k \in 1..Len(Rows("persistentItems")) : addToQuote(PickedId(k))
  \/ \E index \in 1..Len(quoteItems), quantity \in SignedQuantities :
       updateQuoteItemQuantity(index, quantity)
  \/ \E index \in 1..Len(quoteItems) : removeFromQuote(index)
  \/ \E k \in 1..Len(Rows("persistentItems")), confirmed \in BOOLEAN :
       removePersistentItem(settings.persistentItems[k].id, confirmed)
  \/ \E val \in HourInputs : setLaborHours(val)

EntrySpec == InitHistory /\ [][EntryNext]_vars

\* what a session may find under the four storage keys: texts the builds
\* wrote themselves, and texts that are cut short or hold another JSON value
ItemsTexts ==
  {NoText, BadText, JsonText(JsonNull), JsonText(JsonArray(<<>>)),
   JsonText(JsonArray(<<[itemId |-> 0, quantity |-> 1]>>))}

InitStored ==
  /\ variant \in Variants
  /\ \E s \in {NoText, BadText, JsonText(EmptyObject), JsonText(CatalogSettings)},
        i \in ItemsTexts :
       Startup([EmptyStorage EXCEPT !.settings = s, !.items = i])

\* after startup the user works on the quote; none of these steps touches the
\* settings, so a render that went through at startup goes through after them
StartupNext ==
  \/ Navigation
  \/ \E val \in HourInputs : setLaborHours(val)
  \/ \E val \in NameInputs : setQuoteName(val)
  \/ \E k \in 1..Len(Rows("persistentItems")) : addToQuote(PickedId(k))
  \/ \E index \in 1..Len(quoteItems) : removeFromQuote(index)

StartupSpec == InitStored /\ [][StartupNext]_vars

\* settings whose saved quotes repeat an id: importSettings stores any list
\* it is given, and the next session starts from it
Bare(id, name) ==
  [id |-> id, name |-> name, date |-> "earlier", items |-> <<>>,
   laborHours |-> 1, totalPrice |-> 10000]

DuplicateSettings ==
  Spread(CatalogSettings,
         [savedQuotes |-> <<Bare(1, "Deck"), Bare(2, "Shed"), Bare(1, "Deck")>>])

InitMerge ==
  /\ variant \in Variants
  /\ \E s \in {HistorySettings, DuplicateSettings} :
       Startup([EmptyStorage EXCEPT !.settings = JsonText(s)])

\* the user loads, deletes and imports saved quotes
MergeNext ==
  \/ Navigation
  \/ HistoryTab

MergeSpec == InitMerge /\ [][MergeNext]_vars

----
\* Claims about the working quote and the saved quotes

\* the working quote is as loadSavedQuote(settings.savedQuotes[i]) leaves it
LoadedCopyOf(i) ==
  /\ quoteItems = settings.savedQuotes[i].items
  /\ laborHours = settings.savedQuotes[i].laborHours
  /\ quoteName = settings.savedQuotes[i].name

\* an edit of the working quote's items
QuoteItemsEdit ==
  \/ \E index \in 1..Len(quoteItems), quantity \in QuantityInputs :
       updateQuoteItemQuantity(index, quantity)
  \/ \E k \in 1..Len(Rows("persistentItems")) : addToQuote(PickedId(k))
  \/ \E index \in 1..Len(quoteItems) : removeFromQuote(index)

\* C1 (as claimed): once a saved quote q has been loaded, an edit of the
\* working quote (change a quantity, add an item, remove an item) leaves the
\* items, laborHours, name and totalPrice of q in settings.savedQuotes as
\* they were.
C1_LoadIsACopy ==
  [][\A i \in 1..Len(Rows("savedQuotes")) :
       (LoadedCopyOf(i) /\ QuoteItemsEdit)
       => QuoteValue(settings'.savedQuotes[i], heap')
          = QuoteValue(settings.savedQuotes[i], heap)]_vars

\* the stored value of the saved quote with this id, as a set (empty: none)
StoredUnder(id, qs, h) ==
  {QuoteValue(qs[i], h) : i \in {j \in 1..Len(qs) : qs[j].id = id}}

\* C3 (as claimed): a saved quote is immutable at rest: no step changes the
\* items or the quantity of an item of a quote that stays in savedQuotes,
\* whatever is done to the working quote.
C3_SavedQuoteImmutable ==
  [][\A i \in 1..Len(Rows("savedQuotes")) :
       LET id == settings.savedQuotes[i].id
           after == StoredUnder(id, settings'.savedQuotes, heap')
       IN after /= {} => after = {QuoteValue(settings.savedQuotes[i], heap)}]_vars

\* C9: a save with an empty quote name (in App.tsx a name of blanks is empty
\* too) changes nothing: savedQuotes, the rest
\* of the settings, the working quote and localStorage are as before.
C9_EmptyNameSaveAborted ==
  [][(saveCurrentQuote /\ (quoteName = "" \/ (variant = "App" /\ quoteName = " ")))
     => UNCHANGED <<settings, laborHours, quoteItems, quoteName, heap,
                    storage>>]_vars

\* C9 witness: the Save button can be pressed with a blank name in App.tsx, on
\* a quote that has an item and hours
C9_Witness ==
  /\ OnTab("quote") /\ variant = "App" /\ quoteName = " "
  /\ quoteItems /= <<>> /\ laborHours /= 0
  /\ nextId <= MaxIds

\* a quote was saved by this session after another: its id was handed out later
SavedAfter(q, r) == q.id > r.id

\* C10: savedQuotes is most-recent-first: a save puts the new quote first and
\* keeps the others in order, so under saves and deletes a quote saved later
\* stands before every quote saved earlier.
C10_MostRecentFirst ==
  /\ [](\A i, j \in 1..Len(Rows("savedQuotes")) :
          i < j => SavedAfter(settings.savedQuotes[i], settings.savedQuotes[j]))
  /\ [][(saveCurrentQuote /\ settings' /= settings)
        => /\ Tail(settings'.savedQuotes) = settings.savedQuotes
           /\ Head(settings'.savedQuotes).id = nextId]_vars

\* C10 witness: two saves and then a delete of the first one saved
C10_Witness ==
  /\ Len(Rows("savedQuotes")) = 1
  /\ settings.savedQuotes[1].id = 2

----
\* Claims about the stored totals

SavedPrices ==
  [i \in 1..Len(Rows("savedQuotes")) |-> settings.savedQuotes[i].totalPrice]

\* what the quote would cost at the catalog and the rates of now
PriceNow(q) ==
  calculateLaborPrice(q.laborHours, settings.targetHourly)
  + calculateMaterials(ItemValues(q.items, heap), settings.persistentItems,
                       settings.globalMarkup).price

----
\* Claims about startup

\* the text parses, and what it holds is not an object with the four fields
\* of the first version of Settings
InvalidShape(t) ==
  /\ t.text = "json"
  /\ \/ IsNull(t.value)
     \/ IsPrimitive(t.value)
     \/ ~({"targetHourly", "wages", "globalMarkup", "persistentItems"}
           \subseteq DOMAIN t.value)

\* C5 (as claimed): when localStorage holds a text that parses and is invalid
\* in another way than lacking savedQuotes, the settings are DEFAULT_SETTINGS.
C5_InvalidBlobGivesDefaults ==
  \A t \in SettingsTexts :
    (storage.settings = t /\ InvalidShape(t)) => settings = DEFAULT_SETTINGS

\* C6 (as claimed): when localStorage holds a text of the first version, the
\* app starts, with savedQuotes empty and the other fields as in the text.
C6_MigrationAddsSavedQuotes ==
  storage.settings = JsonText(OldSchemaSettings)
  => /\ ~crashed
     /\ settings = Spread(OldSchemaSettings, [savedQuotes |-> <<>>])

----
\* Claims about the imports

\* the text parses
Parses(data) == Truthy(data) /\ ~ParseThrows(data)

CompleteSettings(v) ==
  /\ ~IsNull(v) /\ ~IsPrimitive(v) /\ ~IsArray(v)
  /\ SettingsFields \subseteq DOMAIN v

ArrayOfSavedQuotes(v) ==
  /\ IsArray(v)
  /\ \A i \in 1..Len(v.elements) :
       /\ ~IsNull(v.elements[i])
       /\ DOMAIN v.elements[i] = DOMAIN ForeignQuote

\* the quotes of an imported text filed under this id
ImportedUnder(id, data) ==
  {data.value.elements[k] :
     k \in {j \in 1..Len(data.value.elements) :
              QuoteKey(data.value.elements[j]) = <<id>>}}

\* C2 (as claimed): when an imported quote has the id of a saved quote, the
\* merged list holds the imported quote under that id.
C2_ImportedWinsOnCollision ==
  [][\A data \in QuotesPayloads :
       (importSavedQuotes(data) /\ Parses(data) /\ ArrayOfSavedQuotes(data.value))
       => \A i \in 1..Len(settings.savedQuotes) :
            LET id == settings.savedQuotes[i].id
            IN ImportedUnder(id, data) /= {}
               => StoredUnder(id, settings'.savedQuotes, heap')
                  \subseteq ImportedUnder(id, data)]_vars

\* C7 (as claimed): an import of a text that parses and has the wrong shape
\* (not a complete Settings object, not an array of SavedQuote objects)
\* leaves the settings as they were.
C7_WrongShapeRejected ==
  [][/\ \A data \in SettingsPayloads :
          (/\ importSettings(data)
              \/ \E confirmed \in BOOLEAN : importSettingsResume(data, confirmed)
           /\ Parses(data) /\ ~CompleteSettings(data.value))
          => settings' = settings
     /\ \A data \in QuotesPayloads :
          (importSavedQuotes(data) /\ Parses(data)
           /\ ~ArrayOfSavedQuotes(data.value))
          => settings' = settings]_vars

\* C8: an import of a text that does not parse, or a prompt that was
\* cancelled or left empty, leaves the settings and the working quote as
\* they were.
C8_UnparsableImportIgnored ==
  [][\A data \in SettingsPayloads \cup QuotesPayloads :
       (/\ \/ importSettings(data)
           \/ importSavedQuotes(data)
           \/ \E confirmed \in BOOLEAN : importSettingsResume(data, confirmed)
        /\ ~Parses(data))
       => UNCHANGED <<settings, laborHours, quoteItems, quoteName, heap>>]_vars

\* C8 witness: the settings prompt of App.tsx is one click away, the settings
\* hold a saved quote and the working quote has an item
C8_Witness ==
  /\ ~crashed /\ variant = "App" /\ activeTab = "settings"
  /\ settings /= DEFAULT_SETTINGS
  /\ quoteItems /= <<>>

----
\* Claims about save and load

\* a save that went through: the name was there
SaveDone == saveCurrentQuote /\ settings' /= settings

\* C11: the quote a save stores records the working quote of that moment:
\* its name, hours and items, and as totalPrice the hours at targetHourly plus
\* the material price at the catalog and globalMarkup of that moment, which
\* is the displayed total.
C11_SaveRecordsState ==
  [][SaveDone
     => LET q == Head(settings'.savedQuotes)
        IN /\ q.name = quoteName
           /\ q.laborHours = laborHours
           /\ ItemValues(q.items, heap') = ItemValues(quoteItems, heap)
           /\ q.totalPrice
                = laborHours * settings.targetHourly * 100
                  + calculateMaterials(ItemValues(quoteItems, heap),
                                       settings.persistentItems,
                                       settings.globalMarkup).price
           /\ q.totalPrice = totalPrice]_vars

\* C11 witness: a quote was saved by this session at other rates than the
\* ones the earlier quote was saved at, with items that have a price
C11_Witness ==
  /\ ~crashed
  /\ \E i \in 1..Len(Rows("savedQuotes")) :
       /\ settings.savedQuotes[i].id >= 1
       /\ settings.savedQuotes[i].items /= <<>>
       /\ settings.savedQuotes[i].totalPrice /= ForeignQuote.totalPrice

\* C12: a save that goes through empties the quote name, leaves the items and
\* the hours of the working quote alone, and changes no field of the
\* settings but savedQuotes.
C12_SaveFrame ==
  [][SaveDone
     => /\ quoteName' = ""
        /\ quoteItems' = quoteItems
        /\ ItemValues(quoteItems', heap') = ItemValues(quoteItems, heap)
        /\ laborHours' = laborHours
        /\ DOMAIN settings' = DOMAIN settings
        /\ \A f \in DOMAIN settings \ {"savedQuotes"} :
             settings'[f] = settings[f]]_vars

\* C12 witness: right after a save of a quote with an item and hours
C12_Witness ==
  /\ ~crashed /\ quoteName = ""
  /\ quoteItems /= <<>> /\ laborHours /= 0
  /\ Len(Rows("savedQuotes")) >= 1
  /\ Head(settings.savedQuotes).items = quoteItems
  /\ Head(settings.savedQuotes).laborHours = laborHours

\* C13: a load sets the items, the hours and the name of the working quote to
\* those of the saved quote, whatever the working quote held, and leaves the
\* settings as they were.
C13_LoadFrame ==
  [][\A i \in 1..Len(Rows("savedQuotes")) :
       loadSavedQuote(i)
       => /\ ItemValues(quoteItems', heap')
               = ItemValues(settings.savedQuotes[i].items, heap)
          /\ laborHours' = settings.savedQuotes[i].laborHours
          /\ quoteName' = settings.savedQuotes[i].name
          /\ settings' = settings
          /\ SettingsValue(settings', heap') = SettingsValue(settings, heap)]_vars

\* C13 witness: a saved quote with an item is loaded, and an item the working
\* quote held before is no longer in it
C13_Witness ==
  /\ ~crashed
  /\ \E i \in 1..Len(Rows("savedQuotes")) :
       /\ LoadedCopyOf(i)
       /\ Len(quoteItems) = 1
  /\ Len(heap) = 2

----
\* Claims about catalog entries that quotes refer to

\* the item refers to no entry of the catalog
Dangling(item) == FindItem(settings.persistentItems, item.itemId) = 0

\* C14: the deletion of a catalog entry does not cascade: it takes the
\* entries with that id out of the catalog and leaves the items of the working
\* quote and every saved quote, items and totalPrice, as they were.
C14_NoCascadeOnItemDelete ==
  [][\A k \in 1..Len(Rows("persistentItems")), confirmed \in BOOLEAN :
       LET id == settings.persistentItems[k].id
       IN (removePersistentItem(id, confirmed) /\ settings' /= settings)
          => /\ settings'.persistentItems
                  = SelectSeq(settings.persistentItems,
                              LAMBDA item : item.id /= id)
             /\ quoteItems' = quoteItems
             /\ ItemValues(quoteItems', heap') = ItemValues(quoteItems, heap)
             /\ QuoteValues(settings'.savedQuotes, heap')
                  = QuoteValues(settings.savedQuotes, heap)]_vars

\* C14 witness: the working quote and a saved quote both hold an item whose
\* catalog entry was deleted
C14_Witness ==
  /\ ~crashed
  /\ \E index \in 1..Len(quoteItems) : Dangling(heap[quoteItems[index]])
  /\ \E i \in 1..Len(Rows("savedQuotes")) :
       \E index \in 1..Len(settings.savedQuotes[i].items) :
         Dangling(heap[settings.savedQuotes[i].items[index]])

\* C15: an item that refers to no catalog entry adds 0 to the material cost
\* and price and raises no error: the totals of the working quote are those
\* of the quote without its dangling items, and the app keeps rendering.
C15_DanglingItemCountsZero ==
  /\ ~crashed
  /\ LET items == ItemValues(quoteItems, heap)
         kept == SelectSeq(items, LAMBDA item : ~Dangling(item))
     IN calculateMaterials(items, settings.persistentItems,
                           settings.globalMarkup)
        = calculateMaterials(kept, settings.persistentItems,
                             settings.globalMarkup)

\* C15 witness: the working quote holds an item with a price and, after it,
\* an item whose catalog entry was deleted
C15_Witness ==
  /\ ~crashed
  /\ Len(quoteItems) = 2
  /\ ~Dangling(heap[quoteItems[1]])
  /\ Dangling(heap[quoteItems[2]])
  /\ calculateMaterials(ItemValues(quoteItems, heap),
                        settings.persistentItems,
                        settings.globalMarkup).price > 0

----
\* Claims about persistence

\* C16 (as claimed): after every completed action the text stored under
\* quote_builder_settings is the serialization of the settings in memory,
\* the items of every saved quote included, so that a reload gives the
\* settings of the moment.
C16_BlobTracksSettings ==
  ~crashed => storage.settings = JsonText(SettingsValue(settings, heap))

----
\* Claims about the settings snapshot

\* partial settings, of one field and of two
SettingsPartials ==
  {[targetHourly |-> 50], [globalMarkup |-> 0], [wages |-> <<0>>],
   [persistentItems |-> <<>>], [savedQuotes |-> <<>>],
   [targetHourly |-> 50, wages |-> <<>>]}

\* a step of one of the six handlers that edit the catalog or the wages
LibraryEdit == (WageEdit \/ CatalogEdit) /\ settings' /= settings

\* C17: updateSettings(partial) is a shallow merge: a field the partial names
\* takes the partial's value as a whole, every other field is as before; the
\* handlers of the catalog and the wages change the one field they name.
C17_UpdateSettingsShallowMerge ==
  /\ [](\A updates \in SettingsPartials :
          LET merged == updateSettings(updates)
          IN /\ DOMAIN merged = DOMAIN settings \cup DOMAIN updates
             /\ \A f \in DOMAIN merged :
                  merged[f] = IF f \in DOMAIN updates THEN updates[f]
                              ELSE settings[f])
  /\ [][LibraryEdit
        => /\ DOMAIN settings' = DOMAIN settings
           /\ \E f \in {"wages", "persistentItems"} :
                \A g \in DOMAIN settings \ {f} : settings'[g] = settings[g]]_vars

\* C17 witness: wages and catalog were edited, rates and saved quotes are
\* the ones the session started with
C17_Witness ==
  /\ ~crashed
  /\ Len(settings.wages) = 2
  /\ Len(settings.persistentItems) = 2
  /\ settings.savedQuotes /= <<>>
  /\ settings.targetHourly = HistorySettings.targetHourly
  /\ settings.globalMarkup = HistorySettings.globalMarkup

----
\* Claims about the labor cost

\* the wage lists and the hours the function is tried on
WageLists == UNION {[1..n -> WageEdits] : n \in 0..MaxWages}
HourValues == {0} \cup HourInputs

RECURSIVE SumOf(_)
SumOf(W) == IF W = <<>> THEN 0 ELSE Head(W) + SumOf(Tail(W))

\* the fraction equals h * sum(W) / count(W)
IsMeanTimesHours(c, W, h) == c.num * Len(W) = h * SumOf(W) * c.den

Reorderings(W) ==
  {[i \in 1..Len(W) |-> W[p[i]]] :
     p \in {q \in [1..Len(W) -> 1..Len(W)] :
              \A i, j \in 1..Len(W) : i /= j => q[i] /= q[j]}}

----
\* Claims about the material totals

\* the working quote's items by value, and the catalog entry each resolves to
WorkingItems == ItemValues(quoteItems, heap)

Resolves(qItem) == FindItem(settings.persistentItems, qItem.itemId) /= 0

CatalogEntry(qItem) ==
  settings.persistentItems[FindItem(settings.persistentItems, qItem.itemId)]

MarkupOf(pItem) ==
  IF pItem.useCustomMarkup THEN pItem.customMarkup ELSE settings.globalMarkup

\* the sums over the items of the working quote that resolve, from item i on
RECURSIVE CostFrom(_)
CostFrom(i) ==
  IF i > Len(WorkingItems) THEN 0
  ELSE (IF Resolves(WorkingItems[i])
        THEN CatalogEntry(WorkingItems[i]).cost * WorkingItems[i].quantity
        ELSE 0) + CostFrom(i + 1)

RECURSIVE PriceFrom(_)
PriceFrom(i) ==
  IF i > Len(WorkingItems) THEN 0
  ELSE (IF Resolves(WorkingItems[i])
        THEN CatalogEntry(WorkingItems[i]).cost * WorkingItems[i].quantity
             * (100 + MarkupOf(CatalogEntry(WorkingItems[i])))
        ELSE 0) + PriceFrom(i + 1)

----
\* Claims about the margin

\* what the quote earns, in hundredths times the number of wages
Earned ==
  totalPrice * laborCost.den
  - 100 * (laborCost.num + materials.cost * laborCost.den)

\* C22: the margin is never the result of a division by zero: it is
\* profit / totalPrice * 100 when totalPrice > 0 and 0 otherwise, where
\* profit = totalPrice - (laborCost + materials.cost)
C22_MarginGuarded ==
  ~crashed =>
    /\ margin.den /= 0
    /\ totalPrice > 0 =>
         margin = [num |-> 100 * Earned, den |-> totalPrice * laborCost.den]
    /\ totalPrice <= 0 => margin.num = 0

\* a quote that holds an item, of quantity 0, and whose total price is 0:
\* the quotient would be 0 / 0
C22_Witness ==
  /\ ~crashed
  /\ WorkingItems /= <<>>
  /\ \A i \in 1..Len(WorkingItems) : Resolves(WorkingItems[i])
  /\ totalPrice = 0
  /\ profit.num = 0
  /\ margin = [num |-> 0, den |-> 1]

----
\* Claims about export and import

\* the import of data in either build, the confirmation given
SettingsImported(data) ==
  importSettings(data) \/ importSettingsResume(data, TRUE)

\* C23: an import of the text exportSettings gave for complete settings makes
\* the settings equal to the exported value, whatever the settings were
\* before, and so gives the working quote the labour cost and the material
\* totals it has under the exported settings
C23_SettingsRoundTrip ==
  [][\A data \in SettingsPayloads :
       (/\ ~crashed
        /\ SettingsImported(data)
        /\ Parses(data) /\ CompleteSettings(data.value))
       => /\ SettingsValue(settings', heap') = data.value
          /\ calculateLaborCost(settings'.wages, laborHours')
             = calculateLaborCost(data.value.wages, laborHours)
          /\ calculateMaterials(ItemValues(quoteItems', heap'),
                                settings'.persistentItems,
                                settings'.globalMarkup)
             = calculateMaterials(ItemValues(quoteItems, heap),
                                  data.value.persistentItems,
                                  data.value.globalMarkup)]_vars

\* the settings exported on a device with the defaults and a rate of 50 have
\* replaced settings that held a catalog and a saved quote
C23_Witness ==
  /\ ~crashed
  /\ quoteItems /= <<>>
  /\ SettingsValue(settings, heap)
     = [DEFAULT_SETTINGS EXCEPT !.targetHourly = 50]

\* the steps of ImportNext that are a click or an answer to a prompt
UserAction ==
  \/ Navigation
  \/ \E data \in SettingsPayloads : importSettings(data)
  \/ importSettingsClick
  \/ \E data \in QuotesPayloads : importSavedQuotes(data)
  \/ \E i \in 1..Len(Rows("savedQuotes")) : loadSavedQuote(i)

\* C24 (as claimed): no operation is suspended part-way: every change of the
\* settings or of the working quote is made by the step of the user action
\* that asked for it, none by a later step that no user action takes.
C24_MutationsWithinUserAction ==
  [][<<settings, laborHours, quoteItems, quoteName>>'
       /= <<settings, laborHours, quoteItems, quoteName>> => UserAction]_vars

----
\* Claims about startup

\* C25 (as claimed): whatever text a storage key holds, startup goes through:
\* the initializers and the first render complete.  Under StartupSpec no step
\* after startup changes what a render reads of the settings, so the
\* application is down only if startup failed.
C25_StartupNeverFails == ~crashed

----
\* Claims about the amounts

\* C26 (as claimed): the cost of every catalog entry and the quantity of every
\* item of the working quote are never negative, and a change of an item's
\* quantity leaves the catalog as it was.
C26_NonNegativeAmounts ==
  /\ [](~crashed =>
         /\ \A k \in 1..Len(Rows("persistentItems")) :
              settings.persistentItems[k].cost >= 0
         /\ \A i \in 1..Len(WorkingItems) : WorkingItems[i].quantity >= 0)
  /\ [][\A index \in 1..Len(quoteItems), quantity \in SignedQuantities :
         updateQuoteItemQuantity(index, quantity)
         => settings'.persistentItems = settings.persistentItems]_vars

----
\* Claims about the saved quotes list

\* the keys of a list of quotes, in order
KeysOf(qs) == [i \in 1..Len(qs) |-> QuoteKey(qs[i])]

\* a sequence without the repetitions of its elements, each element at the
\* place of its first occurrence
RECURSIVE FirstOccurrences(_)
FirstOccurrences(ks) ==
  IF ks = <<>> THEN <<>>
  ELSE <<Head(ks)>>
       \o FirstOccurrences(SelectSeq(Tail(ks), LAMBDA k : k /= Head(ks)))

\* an importSavedQuotes that took an array of records
QuotesImported(data) ==
  /\ ~crashed
  /\ importSavedQuotes(data)
  /\ Parses(data) /\ IsArray(data.value)
  /\ \A i \in 1..Len(data.value.elements) : ~IsNull(data.value.elements[i])

\* C28: after an import of an array of records the saved quotes hold one
\* entry for every id of the imported or of the earlier list, no two entries
\* share an id, and the ids come in the order of their first occurrence in the
\* imported list followed by the earlier list
C28_MergeUniqueInOrder ==
  [][\A data \in QuotesPayloads :
       QuotesImported(data)
       => LET after == KeysOf(settings'.savedQuotes)
          IN /\ after = FirstOccurrences(KeysOf(data.value.elements)
                                         \o KeysOf(settings.savedQuotes))
             /\ \A i, j \in 1..Len(after) : after[i] = after[j] => i = j]_vars

\* a list that repeated an id was merged with an imported quote: three ids
\* are left, the imported one first
C28_Witness ==
  /\ ~crashed /\ variant = "App"
  /\ KeysOf(settings.savedQuotes) = <<<<0>>, <<1>>, <<2>>>>

\* no two quotes of the list share an id
DistinctIds(qs) ==
  \A i, j \in 1..Len(qs) : QuoteKey(qs[i]) = QuoteKey(qs[j]) => i = j

\* the saved quotes, by value, an import of data leaves when it is made with
\* the saved quotes qs and the heap h
MergedValues(data, qs, h) ==
  LET parsed == ParseQuotes(data.value.elements, h)
  IN QuoteValues(UniqueById(parsed.quotes \o qs), parsed.heap)

\* C29: when the saved quotes have pairwise distinct ids, an import of the
\* text exportSavedQuotes gives for them leaves the saved quotes as they were,
\* entries and order; and an import of any array of records made a second
\* time leaves the saved quotes as the first import left them
C29_MergeIdempotent ==
  [][\A data \in QuotesPayloads :
       QuotesImported(data)
       => /\ (data = exportSavedQuotes /\ DistinctIds(settings.savedQuotes))
             => QuoteValues(settings'.savedQuotes, heap')
                = QuoteValues(settings.savedQuotes, heap)
          /\ MergedValues(data, settings'.savedQuotes, heap')
             = QuoteValues(settings'.savedQuotes, heap')]_vars

\* two saved quotes of distinct ids, one of them imported earlier, whose
\* export has been imported
C29_Witness ==
  /\ ~crashed /\ variant = "App"
  /\ KeysOf(settings.savedQuotes) = <<<<0>>, <<2>>>>
  /\ Len(heap) = 2

\* C30: a delete that is confirmed (part_001 asks for no confirmation) takes
\* every saved quote of that id off the list and leaves the others in their
\* order; it leaves the rest of the settings and the working quote as they
\* were, also when the working quote was loaded from the deleted quote; a
\* delete that is declined changes nothing
C30_DeleteFrame ==
  [][\A i \in 1..Len(Rows("savedQuotes")), confirmed \in BOOLEAN :
       (~crashed /\ deleteSavedQuote(settings.savedQuotes[i].id, confirmed))
       => IF variant = "App" /\ ~confirmed THEN UNCHANGED vars
          ELSE /\ settings'.savedQuotes
                  = SelectSeq(settings.savedQuotes,
                              LAMBDA q : q.id /= settings.savedQuotes[i].id)
               /\ settings'
                  = [settings EXCEPT !.savedQuotes = settings'.savedQuotes]
               /\ UNCHANGED <<laborHours, quoteItems, quoteName, heap>>]_vars

\* the working quote was loaded from "Deck" and both saved quotes of Deck's
\* id have been deleted
C30_Witness ==
  /\ ~crashed
  /\ quoteName = "Deck" /\ laborHours = 1
  /\ KeysOf(settings.savedQuotes) = <<<<2>>>>

\* C27 (as claimed): while the application runs, settings.savedQuotes is
\* there, whatever path the settings came by: the startup load, an import of
\* settings, an import of quotes.
C27_SavedQuotesPresent == ~crashed => Has(settings, "savedQuotes")

====
